---- MODULE Spec2Model ----
(***************************************************************************)
(* vkv: the import command (src/cmd/import.go, package cmd) and the secret *)
(* printer (src/cmd/import.go, package printer), with the path codec, the  *)
(* root resolver and the tree merger of pkg/utils that they call.          *)
(*                                                                         *)
(* Go strings are sequences of one-character strings, so that prefix       *)
(* stripping, splitting on the delimiter, joining and len() are computed.  *)
(* A Go interface{} value is a tagged record [t, v]; a Go                  *)
(* map[string]interface{} is a function from strings to such values.       *)
(***************************************************************************)
EXTENDS Integers, Sequences, FiniteSets, TLC

VARIABLES
    \* ---- path codec / tree merger (pure functions applied to drawn inputs)
    cMode,      \* "codec" | "merge": which functions this run applies
    cPrefix,    \* absolute prefix p
    cEngine,    \* engine path e
    cFlat,      \* flat secret set f: path -> leaf
    cTree,      \* result of UnflattenMap
    cBack,      \* result of FlattenMap over cTree
    cNew,       \* DeepMergeMaps first argument (new secrets)
    cExisting,  \* DeepMergeMaps second argument (existing secrets)
    cMerged,    \* result of DeepMergeMaps
    cpc,        \* position of the codec run
    \* ---- printer
    heap,       \* Go heap: address -> map object (maps are reference types)
    callerM,    \* address of the caller's map m
    orig,       \* the caller's tree as a value, when the caller built it
    p,          \* the Printer struct
    outs,       \* what each call of Out wrote to the writer, in order
    ppc,        \* position of the printer run
    \* ---- import command
    flags,      \* the flags and input the command was started with
    o,          \* importOptions
    secrets,    \* parsed input
    store,      \* what the backend holds: path -> leaf
    calls,      \* backend calls issued so far, in order
    dest,       \* rootPath and subPath from utils.HandleEnginePath
    todo,       \* flattened paths the write loop has not visited yet
    preview,    \* secretsWithNewPath handed to dryRun
    msgs,       \* messages written to the writer that the claims are about
    ipc         \* position of the import run

cvars == <<cMode, cPrefix, cEngine, cFlat, cTree, cBack, cNew, cExisting, cMerged, cpc>>
pvars == <<heap, callerM, orig, p, outs, ppc>>
ivars == <<flags, o, secrets, store, calls, dest, todo, preview, msgs, ipc>>
vars == <<cvars, pvars, ivars>>

(***************************************************************************)
(* Bounds                                                                  *)
(***************************************************************************)
\* most paths in a flat secret set handed to the codec
MaxFlat == 3
\* most paths in a printed tree
MaxPaths == 2
\* largest mask length drawn besides -1 and the default
MaxValueLen == 4
\* most calls of Out on one printer
MaxOuts == 2

(***************************************************************************)
(* Strings                                                                 *)
(***************************************************************************)
Delimiter == <<"/">>

\* byte order of the characters that occur in keys
CharOrder == <<"*", "/", "0", "1", "2", "a", "b", "c", "d", "e", "j", "k", "r", "s", "t">>

Ord(c) == CHOOSE i \in 1..Len(CharOrder) : CharOrder[i] = c

\* Go's < on strings: bytewise lexicographic
RECURSIVE StrLess(_, _)
StrLess(s, u) ==
    IF u = <<>> THEN FALSE
    ELSE IF s = <<>> THEN TRUE
    ELSE IF Head(s) # Head(u) THEN Ord(Head(s)) < Ord(Head(u))
    ELSE StrLess(Tail(s), Tail(u))

HasPrefix(s, pre) == Len(pre) <= Len(s) /\ SubSeq(s, 1, Len(pre)) = pre

HasSuffix(s, suf) ==
    Len(suf) <= Len(s) /\ SubSeq(s, Len(s) - Len(suf) + 1, Len(s)) = suf

\* strings.TrimPrefix
TrimPrefix(s, pre) ==
    IF HasPrefix(s, pre) THEN SubSeq(s, Len(pre) + 1, Len(s)) ELSE s

\* strings.TrimSuffix
TrimSuffix(s, suf) ==
    IF HasSuffix(s, suf) THEN SubSeq(s, 1, Len(s) - Len(suf)) ELSE s

\* strings.Trim(s, "/")
RECURSIVE TrimSlashes(_)
TrimSlashes(s) ==
    IF s # <<>> /\ Head(s) = "/" THEN TrimSlashes(Tail(s))
    ELSE IF s # <<>> /\ s[Len(s)] = "/" THEN TrimSlashes(SubSeq(s, 1, Len(s) - 1))
    ELSE s

\* strings.Split(s, "/"): always at least one element; "" gives [""]
RECURSIVE Split(_)
Split(s) ==
    IF \A i \in 1..Len(s) : s[i] # "/" THEN <<s>>
    ELSE LET i == CHOOSE j \in 1..Len(s) :
                      s[j] = "/" /\ \A h \in 1..(j - 1) : s[h] # "/"
         IN  <<SubSeq(s, 1, i - 1)>> \o Split(SubSeq(s, i + 1, Len(s)))

\* path.Clean restricted to strings without "." elements: runs of slashes
\* collapse and a trailing slash goes
RECURSIVE CollapseSlashes(_)
CollapseSlashes(s) ==
    IF Len(s) < 2 THEN s
    ELSE IF s[1] = "/" /\ s[2] = "/" THEN CollapseSlashes(Tail(s))
    ELSE <<s[1]>> \o CollapseSlashes(Tail(s))

Clean(s) ==
    LET c == CollapseSlashes(s)
    IN  IF Len(c) > 1 /\ c[Len(c)] = "/" THEN SubSeq(c, 1, Len(c) - 1) ELSE c

\* path.Join(a, b): empty elements are ignored, the rest joined by "/" and cleaned
PathJoin(a, b) ==
    IF a = <<>> /\ b = <<>> THEN <<>>
    ELSE IF a = <<>> THEN Clean(b)
    ELSE IF b = <<>> THEN Clean(a)
    ELSE Clean(a \o Delimiter \o b)

\* utils.NormalizePath: exactly one trailing delimiter
NormalizePath(s) == TrimSuffix(s, Delimiter) \o Delimiter

(***************************************************************************)
(* Values                                                                  *)
(***************************************************************************)
StrV(s) == [t |-> "str", v |-> s]
IntV(n) == [t |-> "int", v |-> n]
MapV(f) == [t |-> "map", v |-> f]
NilV == [t |-> "nil", v |-> 0]

EmptyMap == [k \in {} |-> NilV]

IsMap(x) == x.t = "map"

Digits == <<"0", "1", "2", "3", "4", "5", "6", "7", "8", "9">>

\* decimal digits of a natural number
RECURSIVE Decimal(_)
Decimal(n) ==
    IF n < 10 THEN <<Digits[n + 1]>>
    ELSE Decimal(n \div 10) \o <<Digits[(n % 10) + 1]>>

\* set of all permutations of a finite set, as sequences
Orders(S) ==
    {q \in [1..Cardinality(S) -> S] : \A i, j \in 1..Cardinality(S) : i # j => q[i] # q[j]}

(***************************************************************************)
(* PathCodec: utils.FlattenMap, utils.UnflattenMap                         *)
(***************************************************************************)
\* a leaf node: a map none of whose children is a map
IsLeafMap(x) == IsMap(x) /\ \A k \in DOMAIN x.v : ~IsMap(x.v[k])

\* the (path, leaf) entries FlattenMap emits below prefix
RECURSIVE FlatPairs(_, _)
FlatPairs(tree, prefix) ==
    UNION { IF IsLeafMap(tree[k]) THEN {<<PathJoin(prefix, k), tree[k].v>>}
            ELSE IF IsMap(tree[k]) THEN FlatPairs(tree[k].v, PathJoin(prefix, k))
            ELSE {} : k \in DOMAIN tree }

FlattenMap(tree, prefix) ==
    LET ps == FlatPairs(tree, prefix)
    IN  [q \in {pr[1] : pr \in ps} |-> (CHOOSE pr \in ps : pr[1] = q)[2]]

\* the remainder of a path once the absolute prefix, and the engine path as
\* an outer layer when one is given, are stripped from its front
RelPath(path, prefix, engine) ==
    LET r == TrimSlashes(TrimPrefix(path, prefix))
    IN  IF engine = <<>> THEN r ELSE TrimSlashes(TrimPrefix(r, engine))

\* mutation: an intermediate node is always created afresh, dropping what an
\* earlier path put below it
RECURSIVE InsertFresh(_, _, _)
InsertFresh(tree, segs, leaf) ==
    LET k == Head(segs)
        node == IF Len(segs) = 1 THEN MapV(leaf)
                ELSE MapV(InsertFresh(EmptyMap, Tail(segs), leaf))
    IN  [x \in DOMAIN tree \cup {k} |-> IF x = k THEN node ELSE tree[x]]

\* insert leaf at segs, creating intermediate nodes as needed
RECURSIVE Insert(_, _, _)
Insert(tree, segs, leaf) ==
    LET k == Head(segs)
        child == IF k \in DOMAIN tree /\ IsMap(tree[k]) THEN tree[k].v ELSE EmptyMap
        node == IF Len(segs) = 1 THEN MapV(leaf)
                ELSE MapV(Insert(child, Tail(segs), leaf))
    IN  [x \in DOMAIN tree \cup {k} |-> IF x = k THEN node ELSE tree[x]]

\* UnflattenMap visiting the paths of flat in the order given (Go ranges over
\* the map in an unspecified order)
RECURSIVE UnflattenIn(_, _, _, _)
UnflattenIn(order, prefix, flat, engine) ==
    IF order = <<>> THEN EmptyMap
    ELSE LET n == Len(order)
             sofar == UnflattenIn(SubSeq(order, 1, n - 1), prefix, flat, engine)
         IN  Insert(sofar, Split(RelPath(order[n], prefix, engine)), flat[order[n]])

(***************************************************************************)
(* TreeMerger: utils.DeepMergeMaps                                         *)
(***************************************************************************)
\* mutation: a key present on both sides is taken from new whole
RECURSIVE DeepMergeReplace(_, _)
DeepMergeReplace(new, existing) ==
    [k \in DOMAIN new \cup DOMAIN existing |->
        IF k \in DOMAIN new THEN new[k] ELSE existing[k]]

\* union of both trees; two maps under one key are merged recursively, so two
\* leaves are merged key by key; otherwise new wins
RECURSIVE DeepMergeMaps(_, _)
DeepMergeMaps(new, existing) ==
    [k \in DOMAIN new \cup DOMAIN existing |->
        IF k \notin DOMAIN new THEN existing[k]
        ELSE IF k \notin DOMAIN existing THEN new[k]
        ELSE IF IsMap(new[k]) /\ IsMap(existing[k])
             THEN MapV(DeepMergeMaps(new[k].v, existing[k].v))
        ELSE new[k]]

(***************************************************************************)
(* Inputs of the codec and merger runs                                     *)
(***************************************************************************)
K_j == <<"j">>
K_k == <<"k">>

Leaf1(k, v) == [x \in {k} |-> StrV(v)]
Leaf2(k1, v1, k2, v2) == [x \in {k1, k2} |-> IF x = k1 THEN StrV(v1) ELSE StrV(v2)]

CodecLeaves == { Leaf1(K_k, <<"1">>), Leaf2(K_k, <<"0">>, K_j, <<"2">>) }

CodecPaths ==
    { <<"a">>, <<"b">>, <<"a", "/", "b">>, <<"a", "/", "c">>,
      <<"a", "/", "b", "/", "c">>, <<"a", "b", "/", "c">>, <<"b", "/", "c">>,
      <<"a", "/", "/", "b">> }

CodecPrefixes == { <<>>, <<"a">>, <<"a", "/">>, <<"a", "/", "b">> }

CodecEngines == { <<>>, <<"a">> }

FlatSets ==
    UNION { [D -> CodecLeaves] :
            D \in {S \in SUBSET CodecPaths : Cardinality(S) <= MaxFlat} }

MergeLeaves == CodecLeaves \cup { Leaf1(K_k, <<"0">>), Leaf1(K_j, <<"2">>) }

MergePaths == { <<"a">>, <<"b">>, <<"a", "/", "b">> }

\* no path is both a leaf and a proper prefix of another path
NoAmbiguity(paths) ==
    \A q1, q2 \in paths : q1 # q2 => ~HasPrefix(q2, q1 \o Delimiter)

\* the trees the merger is applied to: every tree over MergePaths in which no
\* node is both a leaf and a subtree
MergeTrees ==
    { UnflattenIn(CHOOSE q \in Orders(DOMAIN f) : TRUE, <<>>, f, <<>>) :
      f \in { g \in UNION { [D -> MergeLeaves] : D \in SUBSET MergePaths } :
              NoAmbiguity(DOMAIN g) } }

(***************************************************************************)
(* The codec and merger runs                                               *)
(***************************************************************************)
CodecIdle ==
    /\ cMode = "none" /\ cPrefix = <<>> /\ cEngine = <<>> /\ cFlat = EmptyMap
    /\ cTree = EmptyMap /\ cBack = EmptyMap /\ cNew = EmptyMap
    /\ cExisting = EmptyMap /\ cMerged = EmptyMap /\ cpc = "none"

CodecInit ==
    /\ cpc = "start"
    /\ cTree = EmptyMap /\ cBack = EmptyMap /\ cMerged = EmptyMap
    /\ \/ /\ cMode = "codec"
          /\ cPrefix \in CodecPrefixes
          /\ cEngine \in CodecEngines
          /\ cFlat \in FlatSets
          /\ cNew = EmptyMap /\ cExisting = EmptyMap
       \/ /\ cMode = "merge"
          /\ cPrefix = <<>> /\ cEngine = <<>> /\ cFlat = EmptyMap
          /\ cNew \in MergeTrees
          /\ cExisting \in MergeTrees

\* existingSecrets := utils.UnflattenMap(prefix, flat, engine)
Unflatten ==
    /\ cMode = "codec" /\ cpc = "start"
    /\ \E order \in Orders(DOMAIN cFlat) :
           cTree' = UnflattenIn(order, cPrefix, cFlat, cEngine)
    /\ cpc' = "unflat"
    /\ UNCHANGED <<cMode, cPrefix, cEngine, cFlat, cBack, cNew, cExisting, cMerged>>
    /\ UNCHANGED <<pvars, ivars>>

\* utils.FlattenMap(tree, out, prefix)
Flatten ==
    /\ cMode = "codec" /\ cpc = "unflat"
    /\ cBack' = FlattenMap(cTree, cPrefix)
    /\ cpc' = "done"
    /\ UNCHANGED <<cMode, cPrefix, cEngine, cFlat, cTree, cNew, cExisting, cMerged>>
    /\ UNCHANGED <<pvars, ivars>>

\* utils.DeepMergeMaps(secrets, existingSecrets)
DeepMerge ==
    /\ cMode = "merge" /\ cpc = "start"
    /\ cMerged' = DeepMergeMaps(cNew, cExisting)
    /\ cpc' = "done"
    /\ UNCHANGED <<cMode, cPrefix, cEngine, cFlat, cTree, cBack, cNew, cExisting>>
    /\ UNCHANGED <<pvars, ivars>>

PrinterIdle ==
    /\ heap = <<>> /\ callerM = 0 /\ orig = EmptyMap /\ p = EmptyMap
    /\ outs = <<>> /\ ppc = "none"

ImportIdle ==
    /\ flags = EmptyMap /\ o = EmptyMap /\ secrets = EmptyMap /\ store = EmptyMap
    /\ calls = <<>> /\ dest = EmptyMap /\ todo = {} /\ preview = EmptyMap
    /\ msgs = <<>> /\ ipc = "none"

CodecNext ==
    \/ Unflatten
    \/ Flatten
    \/ DeepMerge

InitCodec == CodecInit /\ PrinterIdle /\ ImportIdle

SpecCodec == InitCodec /\ [][CodecNext]_vars

(***************************************************************************)
(* C1: round trip of the path codec                                        *)
(***************************************************************************)
\* path lies below prefix: prefix, a delimiter, and a remainder
Under(path, prefix) ==
    prefix = <<>> \/ HasPrefix(path, TrimSuffix(prefix, Delimiter) \o Delimiter)

NonEmptySegments(path) ==
    LET segs == Split(path) IN \A i \in 1..Len(segs) : segs[i] # <<>>

\* where the round trip puts a path: unchanged unless the engine path is
\* stripped from its remainder as the wrapping layer
Adjusted(path, prefix, engine) == PathJoin(prefix, RelPath(path, prefix, engine))

WellFormed(flat, prefix, engine) ==
    /\ \A q \in DOMAIN flat : Under(q, prefix) /\ NonEmptySegments(q)
    /\ NoAmbiguity(DOMAIN flat)
    /\ \A q \in DOMAIN flat : RelPath(q, prefix, engine) # <<>>
    /\ \A q1, q2 \in DOMAIN flat : q1 # q2 =>
           Adjusted(q1, prefix, engine) # Adjusted(q2, prefix, engine)
    /\ NoAmbiguity({Adjusted(q, prefix, engine) : q \in DOMAIN flat})

\* C1: for every prefix p, engine path e and well-formed flat set f,
\* Flatten(Unflatten(p, f, e), p) holds exactly the leaves of f, each under its
\* own path; the path differs from the one in f only where the engine path was
\* stripped as the wrapping layer, and not at all when e is empty.
C1_RoundTrip ==
    (cMode = "codec" /\ cpc = "done" /\ WellFormed(cFlat, cPrefix, cEngine)) =>
        /\ DOMAIN cBack = {Adjusted(q, cPrefix, cEngine) : q \in DOMAIN cFlat}
        /\ \A q \in DOMAIN cFlat : cBack[Adjusted(q, cPrefix, cEngine)] = cFlat[q]
        /\ cEngine = <<>> => cBack = cFlat

C1_Witness ==
    /\ cMode = "codec" /\ cpc = "done" /\ WellFormed(cFlat, cPrefix, cEngine)
    /\ cPrefix = <<"a", "/">> /\ cEngine = <<>>
    /\ DOMAIN cFlat = { <<"a", "/", "c">>, <<"a", "/", "b", "/", "c">> }
    /\ cFlat[<<"a", "/", "c">>] # cFlat[<<"a", "/", "b", "/", "c">>]
    /\ cBack = cFlat

(***************************************************************************)
(* C2: deep merge                                                          *)
(***************************************************************************)
\* the node a tree holds at segs, NilV when there is none
RECURSIVE NodeAt(_, _)
NodeAt(tree, segs) ==
    IF Head(segs) \notin DOMAIN tree THEN NilV
    ELSE IF Len(segs) = 1 THEN tree[Head(segs)]
    ELSE IF IsMap(tree[Head(segs)]) THEN NodeAt(tree[Head(segs)].v, Tail(segs))
    ELSE NilV

\* the key/value pairs a node holds itself
LeafPart(node) ==
    IF IsMap(node) THEN [k \in {x \in DOMAIN node.v : ~IsMap(node.v[x])} |-> node.v[k]]
    ELSE EmptyMap

\* C2: DeepMerge(new, existing) is a leaf-key-wise union in which new wins: a
\* path of only one input holds that input's leaf unchanged, a path of both
\* holds new's value for each key of new and existing's value for each key
\* only existing has, and the result has no path that neither input has.
C2_MergeUnion ==
    (cMode = "merge" /\ cpc = "done") =>
        LET fn == FlattenMap(cNew, <<>>)
            fe == FlattenMap(cExisting, <<>>)
        IN  /\ \A q \in DOMAIN fn \cup DOMAIN fe :
                   LET got == LeafPart(NodeAt(cMerged, Split(q)))
                   IN  /\ IsMap(NodeAt(cMerged, Split(q)))
                       /\ q \notin DOMAIN fe => got = fn[q]
                       /\ q \notin DOMAIN fn => got = fe[q]
                       /\ (q \in DOMAIN fn /\ q \in DOMAIN fe) =>
                              /\ DOMAIN got = DOMAIN fn[q] \cup DOMAIN fe[q]
                              /\ \A k \in DOMAIN fn[q] : got[k] = fn[q][k]
                              /\ \A k \in DOMAIN fe[q] \ DOMAIN fn[q] : got[k] = fe[q][k]
            /\ DOMAIN FlattenMap(cMerged, <<>>) \subseteq DOMAIN fn \cup DOMAIN fe

C2_Witness ==
    /\ cMode = "merge" /\ cpc = "done"
    /\ cNew = [x \in {<<"a">>} |-> MapV(Leaf1(K_k, <<"1">>))]
    /\ cExisting = [x \in {<<"a">>} |-> MapV(Leaf2(K_k, <<"0">>, K_j, <<"2">>))]
    /\ cMerged = [x \in {<<"a">>} |-> MapV(Leaf2(K_k, <<"1">>, K_j, <<"2">>))]

(***************************************************************************)
(* Printer (package printer)                                               *)
(***************************************************************************)
maskChar == "*"

\* default of Printer.valueLength
MaxValueLength == 12

\* a map-typed interface{} value is a reference to a map object on the heap
RefV(a) == [t |-> "ref", v |-> a]

IsRef(x) == x.t = "ref"

\* the tree a heap holds below address a, as a value
RECURSIVE Deref(_, _)
Deref(h, a) ==
    [k \in DOMAIN h[a] |->
        IF IsRef(h[a][k]) THEN MapV(Deref(h, h[a][k].v)) ELSE h[a][k]]

\* utils.SortMapKeys: the keys of a map in lexicographic order
SortMapKeys(m) ==
    CHOOSE q \in Orders(DOMAIN m) :
        \A i, j \in 1..Len(q) : i < j => StrLess(q[i], q[j])

\* fmt.Sprintf("%v", x) and fmt.Sprint(x): a string as it is, an int in
\* decimal, a map as map[k1:v1 k2:v2] with its keys in sorted order
RECURSIVE Sprint(_)
Sprint(x) ==
    CASE x.t = "str" -> x.v
      [] x.t = "int" -> Decimal(x.v)
      [] x.t = "nil" -> <<"<", "n", "i", "l", ">">>
      [] x.t = "map" ->
             LET ks == SortMapKeys(x.v)
                 entry(i) == (IF i > 1 THEN <<" ">> ELSE <<>>) \o
                             ks[i] \o <<":">> \o Sprint(x.v[ks[i]])
                 RECURSIVE upto(_)
                 upto(n) == IF n = 0 THEN <<>> ELSE upto(n - 1) \o entry(n)
             IN  <<"m", "a", "p", "[">> \o upto(Len(ks)) \o <<"]">>

\* strings.Repeat(maskChar, n); it panics when n is negative
Repeat(n) == [i \in 1..n |-> maskChar]

RepeatPanics(n) == n < 0

\* mutation: the mask always has the full length
MaskCountFull(x, valueLength) == valueLength

\* the count maskSecrets hands to strings.Repeat for a value
MaskCount(x, valueLength) ==
    IF Len(Sprint(x)) > valueLength THEN valueLength ELSE Len(Sprint(x))

\* the map objects maskSecrets and printOnlykeys visit: those the entries of
\* p.secrets refer to
LeafAddrs(h, a) == {h[a][k].v : k \in {x \in DOMAIN h[a] : IsRef(h[a][x])}}

\* Printer.printOnlykeys: every value of every leaf becomes ""
printOnlykeys(h, a) ==
    [x \in DOMAIN h |->
        IF x \in LeafAddrs(h, a) THEN [k \in DOMAIN h[x] |-> StrV(<<>>)] ELSE h[x]]

\* Printer.printOnlyPaths: every entry of p.secrets becomes nil
printOnlyPaths(h, a) ==
    [x \in DOMAIN h |-> IF x = a THEN [k \in DOMAIN h[a] |-> NilV] ELSE h[x]]

\* Printer.maskSecrets panics: some value's count is negative
maskPanics(h, a, valueLength) ==
    \E x \in LeafAddrs(h, a) : \E k \in DOMAIN h[x] :
        RepeatPanics(MaskCount(h[x][k], valueLength))

\* Printer.maskSecrets: every value of every leaf becomes a run of maskChar
maskSecrets(h, a, valueLength) ==
    [x \in DOMAIN h |->
        IF x \in LeafAddrs(h, a)
        THEN [k \in DOMAIN h[x] |-> StrV(Repeat(MaskCount(h[x][k], valueLength)))]
        ELSE h[x]]

\* the options of NewPrinter
OptB(name, b) == [op |-> name, b |-> b, n |-> 0]

OptN(name, n) == [op |-> name, b |-> FALSE, n |-> n]

\* one option applied to the printer under construction; st = [p, heap]
ApplyOpt(st, opt) ==
    CASE opt.op = "CustomValueLength" ->
             [st EXCEPT !.p.valueLength = opt.n]
      [] opt.op = "OnlyKeys" ->
             IF opt.b
             THEN [p |-> [st.p EXCEPT !.onlyKeys = TRUE],
                   heap |-> printOnlykeys(st.heap, st.p.secrets)]
             ELSE st
      [] opt.op = "OnlyPaths" ->
             IF opt.b
             THEN [p |-> [st.p EXCEPT !.onlyPaths = TRUE],
                   heap |-> printOnlyPaths(st.heap, st.p.secrets)]
             ELSE st
      [] opt.op = "ToYAML" ->
             IF opt.b THEN [st EXCEPT !.p.format = "yaml"] ELSE st
      [] opt.op = "ToJSON" ->
             IF opt.b THEN [st EXCEPT !.p.format = "json"] ELSE st
      [] opt.op = "ToExportFormat" ->
             [st EXCEPT !.p.format = "export", !.p.showSecrets = TRUE]
      [] opt.op = "ShowSecrets" ->
             [st EXCEPT !.p.showSecrets = opt.b]

RECURSIVE ApplyOpts(_, _)
ApplyOpts(st, opts) ==
    IF opts = <<>> THEN st ELSE ApplyOpts(ApplyOpt(st, Head(opts)), Tail(opts))

\* the printer NewPrinter starts from: the caller's map itself, not a copy
NewStruct(m) ==
    [secrets |-> m, format |-> "native", onlyKeys |-> FALSE, onlyPaths |-> FALSE,
     showSecrets |-> FALSE, valueLength |-> MaxValueLength]

\* the option lists a caller passes
OptionLists ==
    { len \o <<OptB("OnlyKeys", ok), OptB("OnlyPaths", op)>> \o
      (IF late THEN fmt \o <<OptB("ShowSecrets", ss)>>
               ELSE <<OptB("ShowSecrets", ss)>> \o fmt) :
      len \in {<<>>} \cup {<<OptN("CustomValueLength", n)>> : n \in (-1)..MaxValueLen},
      ok \in BOOLEAN, op \in BOOLEAN, ss \in BOOLEAN, late \in BOOLEAN,
      fmt \in { <<>>, <<OptB("ToYAML", TRUE)>>, <<OptB("ToJSON", TRUE)>>,
                <<OptB("ToExportFormat", TRUE)>> } }

\* the trees a caller builds: path -> leaf
PrinterLeaves ==
    { EmptyMap,
      [x \in {K_j} |-> StrV(<<"a", "l", "i", "c", "e">>)],
      [x \in {K_k} |-> IntV(12)],
      [x \in {K_j, K_k} |-> IF x = K_j THEN StrV(<<"s">>)
                            ELSE StrV(<<"a", "l", "i", "c", "e">>)],
      [x \in {K_j, K_k} |-> IF x = K_j THEN IntV(12) ELSE StrV(<<"s">>)],
      [x \in {K_j} |-> MapV([y \in {<<"c">>} |-> StrV(<<"1">>)])] }

PrinterPaths == { <<"a">>, <<"a", "/", "b">>, <<"b">> }

PrinterTrees ==
    UNION { [D -> PrinterLeaves] :
            D \in {S \in SUBSET PrinterPaths : Cardinality(S) <= MaxPaths} }

\* the heap on which the caller built tree: the top-level map at address 1,
\* the leaf of its i-th path at address i + 1
HeapOf(tree) ==
    LET ks == SortMapKeys(tree)
        addr(k) == 1 + CHOOSE i \in 1..Len(ks) : ks[i] = k
    IN  [a \in 1..(Len(ks) + 1) |->
            IF a = 1 THEN [k \in DOMAIN tree |-> RefV(addr(k))]
            ELSE tree[ks[a - 1]]]

PrinterInit ==
    /\ orig \in PrinterTrees
    /\ heap = HeapOf(orig)
    /\ callerM = 1
    /\ p = EmptyMap
    /\ outs = <<>>
    /\ ppc = "start"

\* NewPrinter(m, opts...)
NewPrinter ==
    /\ ppc = "start"
    /\ \E opts \in OptionLists :
         LET st == ApplyOpts([p |-> NewStruct(callerM), heap |-> heap], opts)
         IN  /\ p' = st.p
             /\ IF st.p.showSecrets
                THEN heap' = st.heap /\ ppc' = "ready"
                ELSE IF maskPanics(st.heap, st.p.secrets, st.p.valueLength)
                THEN heap' = st.heap /\ ppc' = "panic"
                ELSE /\ heap' = maskSecrets(st.heap, st.p.secrets, st.p.valueLength)
                     /\ ppc' = "ready"
    /\ UNCHANGED <<callerM, orig, outs>>
    /\ UNCHANGED <<cvars, ivars>>

\* concatenation of a sequence of strings
RECURSIVE Concat(_)
Concat(ss) == IF ss = <<>> THEN <<>> ELSE Head(ss) \o Concat(Tail(ss))

Quote(str) == <<"\"">> \o str \o <<"\"">>

\* utils.ToJSON: keys in lexicographic order
RECURSIVE JSONOf(_)
JSONOf(x) ==
    CASE x.t = "str" -> Quote(x.v)
      [] x.t = "int" -> Decimal(x.v)
      [] x.t = "nil" -> <<"n", "u", "l", "l">>
      [] x.t = "map" ->
             LET ks == SortMapKeys(x.v)
             IN  <<"{">> \o
                 Concat([i \in 1..Len(ks) |->
                            (IF i > 1 THEN <<",">> ELSE <<>>) \o
                            Quote(ks[i]) \o <<":">> \o JSONOf(x.v[ks[i]])]) \o
                 <<"}">>

ToJSON(tree) == JSONOf(MapV(tree)) \o <<"\n">>

\* utils.ToYAML: keys in lexicographic order, children indented
RECURSIVE YAMLOf(_, _)
YAMLOf(m, indent) ==
    LET ks == SortMapKeys(m)
    IN  Concat([i \in 1..Len(ks) |->
            indent \o ks[i] \o <<":">> \o
            (CASE m[ks[i]].t = "map" ->
                      IF DOMAIN m[ks[i]].v = {} THEN <<" ", "{", "}", "\n">>
                      ELSE <<"\n">> \o YAMLOf(m[ks[i]].v, indent \o <<" ", " ">>)
               [] m[ks[i]].t = "nil" -> <<" ", "n", "u", "l", "l", "\n">>
               [] m[ks[i]].t = "str" -> <<" ">> \o Quote(m[ks[i]].v) \o <<"\n">>
               [] OTHER -> <<" ">> \o Sprint(m[ks[i]]) \o <<"\n">>)])

ToYAML(tree) == IF DOMAIN tree = {} THEN <<"{", "}", "\n">> ELSE YAMLOf(tree, <<>>)

\* Printer.printSecrets(s): the lines below one path
printSecrets(h, pr, s) ==
    IF IsRef(s)
    THEN LET m == h[s.v]
             ks == SortMapKeys(m)
         IN  Concat([i \in 1..Len(ks) |->
                 (IF pr.onlyKeys THEN <<"\t">> \o ks[i] \o <<"\n">> ELSE <<>>) \o
                 (IF ~pr.onlyKeys /\ ~pr.onlyPaths
                  THEN <<"\t">> \o ks[i] \o <<"=">> \o Sprint(m[ks[i]]) \o <<"\n">>
                  ELSE <<>>)])
    ELSE <<>>

\* Out, default branch
OutNative(h, pr) ==
    LET ks == SortMapKeys(h[pr.secrets])
    IN  Concat([i \in 1..Len(ks) |->
            ks[i] \o <<"\n">> \o printSecrets(h, pr, h[pr.secrets][ks[i]])])

\* the statements of one leaf, its keys visited in the order given
ExportLeaf(m, order) ==
    Concat([i \in 1..Len(order) |->
        <<"e", "x", "p", "o", "r", "t", " ">> \o order[i] \o <<"=">> \o
        Sprint(m[order[i]]) \o <<"\n">>])

\* Out, export branch, over the first n paths; pick gives for each path the
\* order in which Go's range visits the keys of its leaf
OutExport(h, pr, pick, n) ==
    LET ks == SortMapKeys(h[pr.secrets])
    IN  Concat([i \in 1..n |->
            ExportLeaf(h[h[pr.secrets][ks[i]].v], pick[ks[i]])])

\* the orders in which the inner range of the export branch can visit the keys
RangeOrders(h, pr) ==
    LET top == h[pr.secrets]
    IN  { f \in [DOMAIN top -> UNION {Orders(DOMAIN h[a]) : a \in LeafAddrs(h, pr.secrets)} \cup {<<>>}] :
            \A k \in DOMAIN top :
                f[k] \in (IF IsRef(top[k]) THEN Orders(DOMAIN h[top[k].v]) ELSE {<<>>}) }

\* number of paths the export branch prints before one whose value is not a
\* map makes the type assertion panic
ExportReach(h, pr) ==
    LET ks == SortMapKeys(h[pr.secrets])
        bad == {i \in 1..Len(ks) : ~IsRef(h[pr.secrets][ks[i]])}
    IN  IF bad = {} THEN Len(ks)
        ELSE (CHOOSE i \in bad : \A j \in bad : i <= j) - 1

\* Printer.Out
Out ==
    /\ ppc = "ready"
    /\ Len(outs) < MaxOuts
    /\ CASE p.format = "yaml" ->
                /\ outs' = Append(outs, ToYAML(Deref(heap, p.secrets)))
                /\ ppc' = "ready"
         [] p.format = "json" ->
                /\ outs' = Append(outs, ToJSON(Deref(heap, p.secrets)))
                /\ ppc' = "ready"
         [] p.format = "export" ->
                \E pick \in RangeOrders(heap, p) :
                    /\ outs' = Append(outs, OutExport(heap, p, pick, ExportReach(heap, p)))
                    /\ ppc' = IF ExportReach(heap, p) < Cardinality(DOMAIN heap[p.secrets])
                              THEN "panic" ELSE "ready"
         [] OTHER ->
                /\ outs' = Append(outs, OutNative(heap, p))
                /\ ppc' = "ready"
    /\ UNCHANGED <<heap, callerM, orig, p>>
    /\ UNCHANGED <<cvars, ivars>>

PrinterNext ==
    \/ NewPrinter
    \/ Out

InitPrinter == PrinterInit /\ CodecIdle /\ ImportIdle

SpecPrinter == InitPrinter /\ [][PrinterNext]_vars

(***************************************************************************)
(* C3: masking length bound                                                *)
(***************************************************************************)
Min(a, b) == IF a < b THEN a ELSE b

\* the tree the options leave for masking: printOnlyPaths drops the leaves,
\* printOnlykeys blanks the values
PreMask(tree, pr) ==
    IF pr.onlyPaths THEN [q \in DOMAIN tree |-> NilV]
    ELSE IF pr.onlyKeys
    THEN [q \in DOMAIN tree |-> MapV([k \in DOMAIN tree[q] |-> StrV(<<>>)])]
    ELSE [q \in DOMAIN tree |-> MapV(tree[q])]

\* C3: with masking enabled and mask length L >= 0, every leaf value v is
\* replaced by a run of '*' of length exactly min(len(stringify(v)), L).
C3_MaskLength ==
    (ppc = "ready" /\ ~p.showSecrets /\ p.valueLength >= 0) =>
        LET pre == PreMask(orig, p)
            now == Deref(heap, p.secrets)
        IN  /\ DOMAIN now = DOMAIN pre
            /\ \A q \in DOMAIN pre : IsMap(pre[q]) =>
                   /\ IsMap(now[q])
                   /\ DOMAIN now[q].v = DOMAIN pre[q].v
                   /\ \A k \in DOMAIN pre[q].v :
                          /\ now[q].v[k].t = "str"
                          /\ Len(now[q].v[k].v) =
                                 Min(Len(Sprint(pre[q].v[k])), p.valueLength)
                          /\ \A i \in 1..Len(now[q].v[k].v) : now[q].v[k].v[i] = "*"

C3_Witness ==
    /\ ppc = "ready" /\ ~p.showSecrets /\ p.valueLength = 4 /\ p.format = "native"
    /\ ~p.onlyKeys /\ ~p.onlyPaths
    /\ orig = [q \in {<<"b">>} |->
                  [x \in {K_j, K_k} |-> IF x = K_j THEN StrV(<<"s">>)
                                        ELSE StrV(<<"a", "l", "i", "c", "e">>)]]
    /\ outs = << <<"b", "\n", "\t", "j", "=", "*", "\n",
                   "\t", "k", "=", "*", "*", "*", "*", "\n">> >>

(***************************************************************************)
(* C4: mask length -1                                                      *)
(***************************************************************************)
\* C4: with mask length -1 every leaf value is left as it was, whether or
\* not masking is enabled, and the printer does not fail.
C4_Unmasked ==
    (ppc # "start" /\ p.valueLength = -1 /\ ~p.onlyKeys /\ ~p.onlyPaths) =>
        /\ ppc # "panic"
        /\ Deref(heap, p.secrets) = [q \in DOMAIN orig |-> MapV(orig[q])]

(***************************************************************************)
(* C5: sorted, deterministic output                                        *)
(***************************************************************************)
\* the rendering with every level's keys in lexicographic order
SortedOut(h, pr) ==
    CASE pr.format = "yaml" -> ToYAML(Deref(h, pr.secrets))
      [] pr.format = "json" -> ToJSON(Deref(h, pr.secrets))
      [] pr.format = "export" ->
             OutExport(h, pr,
                       [k \in DOMAIN h[pr.secrets] |->
                           IF IsRef(h[pr.secrets][k])
                           THEN SortMapKeys(h[h[pr.secrets][k].v]) ELSE <<>>],
                       ExportReach(h, pr))
      [] OTHER -> OutNative(h, pr)

\* C5: in every format, every rendering of a tree is the one with the keys
\* of each level in lexicographic order, so any two renderings are identical.
C5_SortedDeterministic ==
    (ppc = "ready") =>
        /\ \A i \in 1..Len(outs) : outs[i] = SortedOut(heap, p)
        /\ \A i, j \in 1..Len(outs) : outs[i] = outs[j]

(***************************************************************************)
(* C8: rendering leaves the caller's tree alone                            *)
(***************************************************************************)
\* C8: after NewPrinter over the caller's m and a call of Out, m holds the
\* paths, keys and values it held before.
C8_InputUnchanged ==
    (ppc = "ready" /\ Len(outs) >= 1) =>
        Deref(heap, callerM) = [q \in DOMAIN orig |-> MapV(orig[q])]

(***************************************************************************)
(* Import command (package cmd)                                            *)
(***************************************************************************)
\* utils.GetRootElement: the single top-level key; ok is false when the map
\* has no or several top-level keys
GetRootElement(m) ==
    IF Cardinality(DOMAIN m) = 1
    THEN [ok |-> TRUE, root |-> CHOOSE k \in DOMAIN m : TRUE]
    ELSE [ok |-> FALSE, root |-> <<>>]

\* utils.HandleEnginePath: the engine path is the root when one is given,
\* otherwise the first segment of the path is
HandleEnginePath(enginePath, path) ==
    IF enginePath # <<>> THEN [rootPath |-> enginePath, subPath |-> path]
    ELSE LET segs == Split(path)
         IN  [rootPath |-> Head(segs),
              subPath |-> TrimPrefix(TrimPrefix(path, Head(segs)), Delimiter)]

\* importOptions.validateFlags: TRUE when it returns nil
validateFlags(f) ==
    IF f.Force /\ f.DryRun THEN FALSE
    ELSE IF f.Silent /\ f.DryRun THEN FALSE
    ELSE IF Len(f.args) > 0 THEN ~(f.File /\ f.args[1] = "-")
    ELSE TRUE

\* mutation: any root found is taken as the engine path
IsEnginePathAlways(rootPath) == Len(Split(rootPath)) >= 1

\* RunE: a root with more than one segment is an engine path
IsEnginePath(rootPath) == Len(Split(rootPath)) > 1

\* mutation: with --dry-run the command falls through to the import proper
AfterResolveFallThrough(dry) == "enable"

\* RunE: with --dry-run the command previews and returns, otherwise it goes
\* on to enable the engine and write
AfterResolve(dry) == IF dry THEN "dryrun" ELSE "enable"

\* mutation: the loop goes on after a failed write
OnWriteErrorContinue == "write"

\* writeSecrets: where a failed write leaves the command
OnWriteError == "err_write"

\* writeSecrets: the sub-path a flattened path is written to
NewSubPath(path, subPath, m) ==
    LET t == GetRootElement(m).root
        n == TrimPrefix(path, t)
    IN  IF subPath # <<>> THEN PathJoin(subPath, n) ELSE n

\* the prefix under which existing and re-rooted secrets are unflattened
DestPrefix(d) == NormalizePath(PathJoin(d.rootPath, d.subPath))

S_secret == <<"s", "e", "c", "r", "e", "t">>

ImportLeaves == { Leaf1(K_k, <<"1">>), Leaf2(K_k, <<"0">>, K_j, <<"2">>) }

\* a top-level key over relative paths with leaves
Rooted(root, rel) == [r \in {root} |-> MapV([q \in DOMAIN rel |-> MapV(rel[q])])]

\* parsed inputs: no, one and two top-level keys; a root with a delimiter
ImportTrees ==
    { EmptyMap }
    \cup { Rooted(r, [q \in {<<"a">>} |-> l]) :
           r \in {S_secret, <<"a", "/", "b">>}, l \in ImportLeaves }
    \cup { Rooted(S_secret, [q \in {<<"a">>, <<"b", "/", "c">>} |->
                                IF q = <<"a">> THEN l1 ELSE l2]) :
           l1 \in ImportLeaves, l2 \in ImportLeaves }
    \cup { [r \in {<<"a">>, <<"b">>} |->
               IF r = <<"a">> THEN MapV([q \in {<<"c">>} |-> MapV(l1)])
               ELSE MapV([q \in {<<"d">>} |-> MapV(l2)])] :
           l1 \in ImportLeaves, l2 \in ImportLeaves }
    \cup { Rooted(S_secret, [q \in {<<"a">>} |-> [x \in {K_k} |-> IntV(1)]]) }

ImportStores ==
    { EmptyMap,
      [q \in {<<"s", "e", "c", "r", "e", "t", "/", "a">>} |-> Leaf1(K_k, <<"1">>)] }

ImportInit ==
    /\ flags \in [ EnginePath : {<<>>, <<"a", "/", "b">>},
                   Path : {<<>>, <<"d">>},
                   Force : BOOLEAN, DryRun : BOOLEAN, Silent : BOOLEAN,
                   File : BOOLEAN, args : {<<>>, <<"-">>},
                   input : {"none", "garbage", "ok"},
                   parsed : ImportTrees ]
    /\ (flags.input # "ok" => flags.parsed = EmptyMap)
    /\ o = [EnginePath |-> flags.EnginePath, Path |-> flags.Path]
    /\ secrets = EmptyMap
    /\ store \in ImportStores
    /\ calls = <<>>
    /\ dest = EmptyMap
    /\ todo = {}
    /\ preview = EmptyMap
    /\ msgs = <<>>
    /\ ipc = "start"

\* vaultClient.ListRecursive: the stored secrets at or below rootPath/subPath
ListRecursive(st, d) ==
    LET at == PathJoin(d.rootPath, d.subPath)
    IN  [q \in {x \in DOMAIN st : x = at \/ HasPrefix(x, at \o Delimiter)} |-> st[q]]

Msg(kind, tree) == [m |-> kind, tree |-> tree]

\* Out of the secret printer that RunE and printResult build: a rendering of
\* the tree it is handed, written to the writer, or an error. The renderer
\* takes a tree and options and yields text for the output sink; the backend
\* is reached through enable, write and recursive read only, none of which a
\* rendering is: the calls it issues are none.
SecretPrinterOut(kind, tree, fails) ==
    [ err   |-> fails,
      calls |-> <<>>,
      text  |-> IF fails THEN <<>> ELSE <<Msg(kind, tree)>> ]

Call(op, path, src, ok) == [op |-> op, path |-> path, src |-> src, ok |-> ok]

\* PreRunE: o.validateFlags
ValidateFlags ==
    /\ ipc = "start"
    /\ ipc' = IF validateFlags(flags) THEN "run" ELSE "rejected"
    /\ UNCHANGED <<flags, o, secrets, store, calls, dest, todo, preview, msgs>>
    /\ UNCHANGED <<cvars, pvars>>

\* RunE up to the first backend call: the input is read and parsed, the root
\* is resolved when no destination was given, and with --dry-run the secrets
\* are re-rooted for the preview
Resolve ==
    /\ ipc = "run"
    /\ UNCHANGED <<flags, store, calls, msgs>>
    /\ UNCHANGED <<cvars, pvars>>
    /\ IF flags.input = "none"
       THEN ipc' = "err_input" /\ UNCHANGED <<o, secrets, dest, todo, preview>>
       ELSE IF flags.input = "garbage"
       THEN ipc' = "err_parse" /\ UNCHANGED <<o, secrets, dest, todo, preview>>
       ELSE LET infer == o.EnginePath = <<>> /\ o.Path = <<>>
                r == GetRootElement(flags.parsed)
            IN  /\ secrets' = flags.parsed
                /\ IF infer /\ ~r.ok
                   THEN ipc' = "err_root" /\ UNCHANGED <<o, dest, todo, preview>>
                   ELSE LET o2 == IF ~infer THEN o
                                  ELSE IF IsEnginePath(r.root)
                                  THEN [o EXCEPT !.EnginePath = r.root]
                                  ELSE [o EXCEPT !.Path = r.root]
                            d == HandleEnginePath(o2.EnginePath, o2.Path)
                        IN  /\ o' = o2
                            /\ dest' = d
                            /\ ipc' = AfterResolve(flags.DryRun)
                            /\ IF flags.DryRun
                               THEN /\ todo' = {}
                                    /\ IF DOMAIN flags.parsed = {}
                                       THEN preview' = EmptyMap
                                       ELSE \E k \in DOMAIN flags.parsed :
                                            \E order \in Orders(DOMAIN flags.parsed[k].v) :
                                                preview' = UnflattenIn(order, DestPrefix(d),
                                                    [q \in DOMAIN flags.parsed[k].v |->
                                                        flags.parsed[k].v[q].v],
                                                    o2.EnginePath)
                               ELSE /\ todo' = {}
                                    /\ preview' = EmptyMap

\* o.dryRun: the recursive read, the comparison, and printer.Out of the
\* existing secrets or of the merge; an error of the read or of printer.Out
\* is returned
DryRun ==
    /\ ipc = "dryrun"
    /\ \E ok \in BOOLEAN :
         LET list == Call("list", PathJoin(dest.rootPath, dest.subPath), <<>>, ok)
         IN  IF ~ok
             THEN /\ calls' = Append(calls, list)
                  /\ ipc' = "err_list"
                  /\ msgs' = msgs
             ELSE LET tmp == ListRecursive(store, dest)
                  IN  \E order \in Orders(DOMAIN tmp) : \E fails \in BOOLEAN :
                        LET existingSecrets ==
                                UnflattenIn(order, DestPrefix(dest), tmp, o.EnginePath)
                            out ==
                                IF Sprint(MapV(preview)) = Sprint(MapV(existingSecrets))
                                THEN SecretPrinterOut("no changes needed",
                                                      existingSecrets, fails)
                                ELSE SecretPrinterOut("preview",
                                         DeepMergeMaps(preview, existingSecrets), fails)
                        IN  /\ calls' = Append(calls, list) \o out.calls
                            /\ msgs' = msgs \o out.text
                            /\ ipc' = IF out.err THEN "err_print" ELSE "done"
    /\ UNCHANGED <<flags, o, secrets, store, dest, todo, preview>>
    /\ UNCHANGED <<cvars, pvars>>

\* vaultClient.EnableKV2EngineErrorIfNotForced(o.Force, rootPath)
EnableEngine ==
    /\ ipc = "enable"
    /\ \E ok \in BOOLEAN :
         /\ calls' = Append(calls, Call("enable", dest.rootPath, <<>>, ok))
         /\ ipc' = IF ok THEN "write" ELSE "err_enable"
         /\ todo' = IF ok THEN DOMAIN FlattenMap(secrets, <<>>) ELSE {}
    /\ UNCHANGED <<flags, o, secrets, store, dest, preview, msgs>>
    /\ UNCHANGED <<cvars, pvars>>

\* writeSecrets: one round of the loop over the flattened secrets
WriteSecret ==
    /\ ipc = "write"
    /\ \E q \in todo : \E ok \in BOOLEAN :
         LET at == PathJoin(dest.rootPath, NewSubPath(q, dest.subPath, secrets))
             leaf == FlattenMap(secrets, <<>>)[q]
         IN  /\ calls' = Append(calls, Call("write", at, q, ok))
             /\ IF ok
                THEN /\ store' = [x \in DOMAIN store \cup {at} |->
                                     IF x = at THEN leaf ELSE store[x]]
                     /\ msgs' = Append(msgs, Msg("writing secret", EmptyMap))
                     /\ todo' = todo \ {q}
                     /\ ipc' = "write"
                ELSE /\ ipc' = OnWriteError
                     /\ UNCHANGED <<store, msgs, todo>>
    /\ UNCHANGED <<flags, o, secrets, dest, preview>>
    /\ UNCHANGED <<cvars, pvars>>

\* writeSecrets: the loop is over
WriteDone ==
    /\ ipc = "write"
    /\ todo = {}
    /\ msgs' = Append(msgs, Msg("successfully imported all secrets", EmptyMap))
    /\ ipc' = IF flags.Silent THEN "done" ELSE "result"
    /\ UNCHANGED <<flags, o, secrets, store, calls, dest, todo, preview>>
    /\ UNCHANGED <<cvars, pvars>>

\* o.printResult and printer.Out(result); an error of the read or of
\* printer.Out is returned
PrintResult ==
    /\ ipc = "result"
    /\ \E ok \in BOOLEAN :
         LET list == Call("list", PathJoin(dest.rootPath, dest.subPath), <<>>, ok)
         IN  IF ~ok
             THEN /\ calls' = Append(calls, list)
                  /\ ipc' = "err_list"
                  /\ msgs' = msgs
             ELSE LET found == ListRecursive(store, dest)
                  IN  \E order \in Orders(DOMAIN found) : \E fails \in BOOLEAN :
                        LET result ==
                                UnflattenIn(order, DestPrefix(dest), found, o.EnginePath)
                            out == SecretPrinterOut("result", result, fails)
                        IN  /\ calls' = Append(calls, list) \o out.calls
                            /\ msgs' = msgs \o out.text
                            /\ ipc' = IF out.err THEN "err_print" ELSE "done"
    /\ UNCHANGED <<flags, o, secrets, store, dest, todo, preview>>
    /\ UNCHANGED <<cvars, pvars>>

ImportNext ==
    \/ ValidateFlags
    \/ Resolve
    \/ DryRun
    \/ EnableEngine
    \/ WriteSecret
    \/ WriteDone
    \/ PrintResult

InitImport == ImportInit /\ CodecIdle /\ PrinterIdle

SpecImport == InitImport /\ [][ImportNext]_vars

HasDelimiter(str) == \E i \in 1..Len(str) : str[i] = "/"

\* C7: when import runs with neither an engine path nor a path, the
\* destination is resolved iff the parsed input has exactly one top-level
\* key r; r is the engine path if it has more than one '/'-separated segment
\* and the sub-path otherwise; with no or several top-level keys the command
\* returns an error and issues no backend call.
C7_RootResolution ==
    (/\ flags.EnginePath = <<>> /\ flags.Path = <<>> /\ flags.input = "ok"
     /\ ipc \notin {"start", "rejected", "run"}) =>
        LET roots == DOMAIN flags.parsed
        IN  /\ (ipc = "err_root") <=> (Cardinality(roots) # 1)
            /\ Cardinality(roots) # 1 => calls = <<>>
            /\ \A r \in roots : Cardinality(roots) = 1 =>
                   IF HasDelimiter(r)
                   THEN o.EnginePath = r /\ o.Path = <<>>
                   ELSE o.Path = r /\ o.EnginePath = <<>>

C7_Witness ==
    /\ flags.EnginePath = <<>> /\ flags.Path = <<>> /\ flags.input = "ok"
    /\ DOMAIN flags.parsed = {S_secret}
    /\ o.Path = S_secret /\ o.EnginePath = <<>>
    /\ dest.rootPath = S_secret
    /\ ipc = "done" /\ ~flags.DryRun
    /\ Len(calls) >= 2

(***************************************************************************)
(* C9: the write loop                                                      *)
(***************************************************************************)
Successes == {i \in 1..Len(msgs) : msgs[i].m = "successfully imported all secrets"}

Writes == {i \in 1..Len(calls) : calls[i].op = "write"}

\* C9: writeSecrets writes one flattened path at a time; if no write fails,
\* exactly one write is issued for each flattened path and the success
\* message is emitted once, at the end; a failed write is the last call, is
\* not retried, and no success message follows it; what was written before
\* it stays written.
C9_WriteLoop ==
    /\ \A i \in Writes : ~calls[i].ok =>
           /\ i = Len(calls)
           /\ ipc = "err_write"
           /\ Successes = {}
    /\ \A i, j \in Writes : i # j => calls[i].src # calls[j].src
    /\ \A i \in Writes : calls[i].ok => calls[i].path \in DOMAIN store
    /\ Cardinality(Successes) <= 1
    /\ Successes # {} =>
           /\ {calls[i].src : i \in Writes} = DOMAIN FlattenMap(secrets, <<>>)
           /\ \A i \in Writes : calls[i].ok
    /\ (ipc \in {"result", "done"} /\ ~flags.DryRun) => Cardinality(Successes) = 1
    /\ ipc = "write" => Successes = {}

C9_Witness ==
    /\ ipc = "err_write"
    /\ Len(calls) = 3
    /\ calls[2].op = "write" /\ calls[2].ok /\ calls[2].path \in DOMAIN store
    /\ calls[3].op = "write" /\ ~calls[3].ok
    /\ todo # {}
    /\ Successes = {}

(***************************************************************************)
(* C10: the dry-run preview and the input                                  *)
(***************************************************************************)
\* C10: the re-rooted tree that dry-run compares and merges holds the
\* secrets of every top-level entry of the input: the leaves a non-dry-run
\* import of that input would write.
C10_PreviewCoversInput ==
    (ipc = "dryrun") =>
        {pr[2] : pr \in FlatPairs(secrets, <<>>)} \subseteq
            {pr[2] : pr \in FlatPairs(preview, <<>>)}

====
